---- MODULE Spec2Model ----
(***************************************************************************)
(* Sequence alignment (src/src/basic.py, src/src/efficient.py) and the     *)
(* string generator (src/string_generator.py).                             *)
(*                                                                         *)
(* efficient.py holds its own copies of space_efficient_alignment,         *)
(* basic_alignment, hirschberg_alignment and calculate_alignment_cost; they *)
(* are statement for statement those of basic.py, and string_generator.py's *)
(* generate_string is basic.py's, so one definition models both copies.     *)
(*                                                                         *)
(* Python strings and lists are modelled as TLA+ sequences; a character is *)
(* a one-letter string.  Python indexes from 0, TLA+ sequences from 1:     *)
(* At(l, i) is Python's l[i] for 0 <= i < len(l).                          *)
(***************************************************************************)
EXTENDS Integers, Sequences, FiniteSets, TLC

VARIABLES pc,               \* which function was called last
          str1, str2,       \* the two input strings of the aligners
          dp,               \* the quadratic table of sequence_alignment
          score,            \* the list returned by space_efficient_alignment
          aligner,          \* the aligner that returned the triple below
          aligned_str1, aligned_str2, cost,   \* the triple an aligner returned
          calculated_cost,  \* what calculate_alignment_cost returned
          base, indices,    \* the arguments of generate_string
          s, pos,           \* its running string, and how many indices it consumed
          char1, char2,     \* the arguments of get_alpha
          alpha_cost,       \* what get_alpha returned
          stack,            \* the calls not yet returned, the running one first
          chosen_split,     \* split_idx of the last split of hirschberg_alignment
          bt_i, bt_j,       \* i, j of the backtrack loop of basic_alignment
          bt_str1, bt_str2  \* aligned_str1, aligned_str2 of that loop

alignVars == <<str1, str2, dp, score, aligner, aligned_str1, aligned_str2, cost,
               calculated_cost>>

genVars == <<base, indices, s, pos>>

costVars == <<char1, char2, alpha_cost>>

stepVars == <<stack, chosen_split, bt_i, bt_j, bt_str1, bt_str2>>

vars == <<pc, alignVars, genVars, costVars, stepVars>>

(***************************************************************************)
(* Bounds of the model.                                                    *)
(***************************************************************************)
\* len(str1) + len(str2) of the aligners' inputs
MaxTotalLen == 5

\* len(base) of the generator's seed
MaxBaseLen == 2

\* len(indices) of the generator's seed
MaxIndices == 2

\* the indices of a seed are drawn from -MaxIndex..MaxIndex
MaxIndex == 3

(***************************************************************************)
(* Python built-ins.                                                       *)
(***************************************************************************)
At(l, i) == l[i + 1]

Min2(a, b) == IF a <= b THEN a ELSE b

Max2(a, b) == IF a >= b THEN a ELSE b

\* min(a, b, c)
Min3(a, b, c) == Min2(Min2(a, b), c)

\* A slice bound as Python normalises it: negative counts from the end,
\* and the result is clamped to 0..n.
SliceBound(x, n) == IF x < 0 THEN Max2(n + x, 0) ELSE Min2(x, n)

\* l[:e]
SliceTo(l, e) == SubSeq(l, 1, SliceBound(e, Len(l)))

\* l[b:]
SliceFrom(l, b) == SubSeq(l, SliceBound(b, Len(l)) + 1, Len(l))

\* l[::-1]
Reversed(l) == [i \in 1..Len(l) |-> l[Len(l) + 1 - i]]

\* c * n for a one-character string c
Repeat(c, n) == [i \in 1..n |-> c]

(***************************************************************************)
(* The cost model.                                                         *)
(***************************************************************************)
Alphabet == {"A", "C", "G", "T"}

ALPHA == [A |-> [A |-> 0,   C |-> 110, G |-> 48,  T |-> 94],
          C |-> [A |-> 110, C |-> 0,   G |-> 118, T |-> 48],
          G |-> [A |-> 48,  G |-> 0,   C |-> 118, T |-> 110],
          T |-> [A |-> 94,  T |-> 0,   C |-> 48,  G |-> 110]]

GAP == 30

DELTA == GAP

\* ALPHA.get(char1, {}).get(char2, 0)
get_alpha(c1, c2) ==
    IF c1 \in DOMAIN ALPHA
    THEN IF c2 \in DOMAIN ALPHA[c1] THEN ALPHA[c1][c2] ELSE 0
    ELSE 0

(***************************************************************************)
(* sequence_alignment: the quadratic table.                                *)
(***************************************************************************)
\* dp = [[0] * (n + 1) for _ in range(m + 1)], then the two base-case loops
init_dp_nocol(m, n, gap) ==
    [i \in 1..(m + 1) |-> [j \in 1..(n + 1) |->
        IF i = 1 THEN (j - 1) * gap ELSE 0]]

init_dp(m, n, gap) ==
    [i \in 1..(m + 1) |-> [j \in 1..(n + 1) |->
        IF j = 1 THEN (i - 1) * gap
        ELSE IF i = 1 THEN (j - 1) * gap
        ELSE 0]]

\* the body of the two nested loops: the value stored in dp[i][j]
dp_cell(t, i, j, s1, s2, gap) ==
    LET match_cost == At(At(t, i - 1), j - 1) + get_alpha(At(s1, i - 1), At(s2, j - 1))
        gap_str2   == At(At(t, i - 1), j) + gap
        gap_str1   == At(At(t, i), j - 1) + gap
    IN  Min3(match_cost, gap_str2, gap_str1)

\* for i in range(1, m + 1): for j in range(1, n + 1): dp[i][j] = ...
RECURSIVE fill_dp(_, _, _, _, _, _)
fill_dp(t, i, j, s1, s2, gap) ==
    IF i > Len(s1) THEN t
    ELSE IF j > Len(s2) THEN fill_dp(t, i + 1, 1, s1, s2, gap)
    ELSE fill_dp([t EXCEPT ![i + 1][j + 1] = dp_cell(t, i, j, s1, s2, gap)],
                 i, j + 1, s1, s2, gap)

\* the table as it stands when sequence_alignment returns
sequence_alignment_table(s1, s2, gap) ==
    fill_dp(init_dp(Len(s1), Len(s2), gap), 1, 1, s1, s2, gap)

\* return dp[m][n]
sequence_alignment(s1, s2, gap) ==
    At(At(sequence_alignment_table(s1, s2, gap), Len(s1)), Len(s2))

(***************************************************************************)
(* space_efficient_alignment: the last row of the table in O(n) space.     *)
(***************************************************************************)
\* for j in range(1, n + 1): curr.append(min(...))
RECURSIVE space_efficient_inner(_, _, _, _, _, _)
space_efficient_inner(prev, curr, i, j, s1, s2) ==
    IF j > Len(s2) THEN curr
    ELSE LET match_cost  == At(prev, j - 1) + get_alpha(At(s1, i - 1), At(s2, j - 1))
             delete_cost == At(prev, j) + DELTA
             insert_cost == At(curr, j - 1) + DELTA
         IN  space_efficient_inner(prev,
                 Append(curr, Min3(match_cost, delete_cost, insert_cost)),
                 i, j + 1, s1, s2)

space_efficient_row_first_delta(prev, i, s1, s2) ==
    space_efficient_inner(prev, <<DELTA>>, i, 1, s1, s2)

\* one pass of the outer loop: curr = [i * DELTA], then the inner loop
space_efficient_row(prev, i, s1, s2) ==
    space_efficient_inner(prev, <<i * DELTA>>, i, 1, s1, s2)

\* for i in range(1, m + 1): ...; prev = curr
RECURSIVE space_efficient_outer(_, _, _, _)
space_efficient_outer(prev, i, s1, s2) ==
    IF i > Len(s1) THEN prev
    ELSE space_efficient_outer(space_efficient_row(prev, i, s1, s2), i + 1, s1, s2)

space_efficient_alignment(s1, s2) ==
    space_efficient_outer([j \in 1..(Len(s2) + 1) |-> (j - 1) * DELTA], 1, s1, s2)

(***************************************************************************)
(* basic_alignment: the quadratic table and the backtrack through it.      *)
(***************************************************************************)
\* the table of basic_alignment: the same loops as sequence_alignment, with
\* DELTA as the gap
basic_alignment_table(s1, s2) ==
    fill_dp(init_dp(Len(s1), Len(s2), DELTA), 1, 1, s1, s2, DELTA)

\* The branch the backtrack loop takes at (i, j): "gap1" puts '_' in
\* aligned_str1 and consumes str2[j-1]; "gap2" puts '_' in aligned_str2 and
\* consumes str1[i-1]; "match" consumes both.
backtrack_move_no_alpha(t, i, j, s1, s2) ==
    IF i = 0 THEN "gap1"
    ELSE IF j = 0 THEN "gap2"
    ELSE LET current     == At(At(t, i), j)
             match_cost  == At(At(t, i - 1), j - 1)
             delete_cost == At(At(t, i - 1), j) + DELTA
         IN  IF current = match_cost THEN "match"
             ELSE IF current = delete_cost THEN "gap2"
             ELSE "gap1"

backtrack_move_insert_first(t, i, j, s1, s2) ==
    IF i = 0 THEN "gap1"
    ELSE IF j = 0 THEN "gap2"
    ELSE LET current     == At(At(t, i), j)
             match_cost  == At(At(t, i - 1), j - 1) + get_alpha(At(s1, i - 1), At(s2, j - 1))
             insert_cost == At(At(t, i), j - 1) + DELTA
         IN  IF current = match_cost THEN "match"
             ELSE IF current = insert_cost THEN "gap1"
             ELSE "gap2"

backtrack_move(t, i, j, s1, s2) ==
    IF i = 0 THEN "gap1"
    ELSE IF j = 0 THEN "gap2"
    ELSE LET current     == At(At(t, i), j)
             match_cost  == At(At(t, i - 1), j - 1) + get_alpha(At(s1, i - 1), At(s2, j - 1))
             delete_cost == At(At(t, i - 1), j) + DELTA
         IN  IF current = match_cost THEN "match"
             ELSE IF current = delete_cost THEN "gap2"
             ELSE "gap1"

\* while i > 0 or j > 0: prepend one column and step back
RECURSIVE backtrack(_, _, _, _, _, _, _)
backtrack(t, i, j, a1, a2, s1, s2) ==
    IF ~(i > 0 \/ j > 0) THEN <<a1, a2>>
    ELSE LET move == backtrack_move(t, i, j, s1, s2)
         IN  CASE move = "gap1" ->
                    backtrack(t, i, j - 1, <<"_">> \o a1, <<At(s2, j - 1)>> \o a2, s1, s2)
               [] move = "gap2" ->
                    backtrack(t, i - 1, j, <<At(s1, i - 1)>> \o a1, <<"_">> \o a2, s1, s2)
               [] move = "match" ->
                    backtrack(t, i - 1, j - 1, <<At(s1, i - 1)>> \o a1,
                              <<At(s2, j - 1)>> \o a2, s1, s2)

\* returns <<aligned_str1, aligned_str2, dp[m][n]>>
basic_alignment(s1, s2) ==
    LET t == basic_alignment_table(s1, s2)
        a == backtrack(t, Len(s1), Len(s2), <<>>, <<>>, s1, s2)
    IN  <<a[1], a[2], At(At(t, Len(s1)), Len(s2))>>

(***************************************************************************)
(* hirschberg_alignment: divide and conquer on str1.                       *)
(***************************************************************************)
\* score_right: the scorer on the reversed strings, then .reverse()
hirschberg_score_right(str1_right, s2) ==
    Reversed(space_efficient_alignment(Reversed(str1_right), Reversed(s2)))

\* for k in range(n + 1): keep the first k whose total is below min_cost.
\* min_cost starts as float('inf'): is_inf says that it still is.
RECURSIVE split_search(_, _, _, _, _, _, _)
split_search(score_left, score_right, k, stop, is_inf, min_cost, split_idx) ==
    IF k >= stop THEN split_idx
    ELSE LET total_cost == At(score_left, k) + At(score_right, k)
         IN  IF is_inf \/ total_cost < min_cost
             THEN split_search(score_left, score_right, k + 1, stop, FALSE, total_cost, k)
             ELSE split_search(score_left, score_right, k + 1, stop, is_inf, min_cost, split_idx)

hirschberg_halves_low_mid(s1) ==
    LET mid == (Len(s1) - 1) \div 2
    IN  <<SliceTo(s1, mid), SliceFrom(s1, mid)>>

\* mid = m // 2; <<str1[:mid], str1[mid:]>>
hirschberg_halves(s1) ==
    LET mid == Len(s1) \div 2
    IN  <<SliceTo(s1, mid), SliceFrom(s1, mid)>>

\* the split search with <= for <: the last minimum wins
RECURSIVE split_search_last(_, _, _, _, _, _, _)
split_search_last(score_left, score_right, k, stop, is_inf, min_cost, split_idx) ==
    IF k >= stop THEN split_idx
    ELSE LET total_cost == At(score_left, k) + At(score_right, k)
         IN  IF is_inf \/ total_cost <= min_cost
             THEN split_search_last(score_left, score_right, k + 1, stop, FALSE,
                                    total_cost, k)
             ELSE split_search_last(score_left, score_right, k + 1, stop, is_inf,
                                    min_cost, split_idx)

find_split_last_min(score_left, score_right, n) ==
    split_search_last(score_left, score_right, 0, n + 1, TRUE, 0, 0)

find_split_short_range(score_left, score_right, n) ==
    split_search(score_left, score_right, 0, n, TRUE, 0, 0)

find_split(score_left, score_right, n) ==
    split_search(score_left, score_right, 0, n + 1, TRUE, 0, 0)

\* the split index the recursive case chooses for (str1, str2)
hirschberg_split(s1, s2) ==
    LET mid         == Len(s1) \div 2
        str1_left   == SliceTo(s1, mid)
        str1_right  == SliceFrom(s1, mid)
        score_left  == space_efficient_alignment(str1_left, s2)
        score_right == hirschberg_score_right(str1_right, s2)
    IN  find_split(score_left, score_right, Len(s2))

hirschberg_combine_swapped(left, right) ==
    <<left[1] \o right[1], right[2] \o left[2], left[3] + right[3]>>

\* aligned_str1, aligned_str2, total_cost of the two halves
hirschberg_combine(left, right) ==
    <<left[1] \o right[1], left[2] \o right[2], left[3] + right[3]>>

RECURSIVE hirschberg_alignment(_, _)
hirschberg_alignment(s1, s2) ==
    LET m == Len(s1)
        n == Len(s2)
    IN  IF m = 0 THEN <<Repeat("_", n), s2, n * DELTA>>
        ELSE IF n = 0 THEN <<s1, Repeat("_", m), m * DELTA>>
        ELSE IF m = 1 \/ n = 1 THEN basic_alignment(s1, s2)
        ELSE LET mid        == m \div 2
                 str1_left  == SliceTo(s1, mid)
                 str1_right == SliceFrom(s1, mid)
                 split_idx  == hirschberg_split(s1, s2)
                 str2_left  == SliceTo(s2, split_idx)
                 str2_right == SliceFrom(s2, split_idx)
             IN  hirschberg_combine(hirschberg_alignment(str1_left, str2_left),
                                    hirschberg_alignment(str1_right, str2_right))

(***************************************************************************)
(* calculate_alignment_cost: the cost recomputed from an alignment.        *)
(***************************************************************************)
RECURSIVE calculate_cost_loop_gap1_only(_, _, _, _)
calculate_cost_loop_gap1_only(a1, a2, i, c) ==
    IF i >= Len(a1) THEN c
    ELSE IF At(a1, i) = "_"
         THEN calculate_cost_loop_gap1_only(a1, a2, i + 1, c + DELTA)
         ELSE calculate_cost_loop_gap1_only(a1, a2, i + 1,
                                            c + get_alpha(At(a1, i), At(a2, i)))

\* for i in range(len(aligned_str1)): cost += ...
RECURSIVE calculate_cost_loop(_, _, _, _)
calculate_cost_loop(a1, a2, i, c) ==
    IF i >= Len(a1) THEN c
    ELSE IF At(a1, i) = "_" \/ At(a2, i) = "_"
         THEN calculate_cost_loop(a1, a2, i + 1, c + DELTA)
         ELSE calculate_cost_loop(a1, a2, i + 1, c + get_alpha(At(a1, i), At(a2, i)))

calculate_alignment_cost_gap1_only(a1, a2) ==
    IF Len(a1) # Len(a2) THEN <<"ValueError">>
    ELSE <<"return", calculate_cost_loop_gap1_only(a1, a2, 0, 0)>>

\* <<"ValueError">> when the lengths differ, else <<"return", cost>>
calculate_alignment_cost(a1, a2) ==
    IF Len(a1) # Len(a2) THEN <<"ValueError">>
    ELSE <<"return", calculate_cost_loop(a1, a2, 0, 0)>>

(***************************************************************************)
(* generate_string: the string inserted into itself after each index.      *)
(***************************************************************************)
generate_step_off_by_one(cur, idx) == SliceTo(cur, idx) \o cur \o SliceFrom(cur, idx + 1)

\* s = s[:idx + 1] + s + s[idx + 1:]
generate_step(cur, idx) == SliceTo(cur, idx + 1) \o cur \o SliceFrom(cur, idx + 1)

\* s = base; for idx in indices: ...; return s
RECURSIVE generate_loop(_, _, _)
generate_loop(cur, idxs, i) ==
    IF i >= Len(idxs) THEN cur
    ELSE generate_loop(generate_step(cur, At(idxs, i)), idxs, i + 1)

generate_string(b, idxs) == generate_loop(b, idxs, 0)

(***************************************************************************)
(* The state machine: the aligners called on a pair of strings.            *)
(***************************************************************************)
Strings(n) == UNION {[1..k -> Alphabet] : k \in 0..n}

None == <<"None">>

\* no aligner, generator or cost lookup has been called
NoAlignment ==
    /\ str1 = None /\ str2 = None /\ dp = None /\ score = None /\ aligner = None
    /\ aligned_str1 = None /\ aligned_str2 = None /\ cost = None
    /\ calculated_cost = None

NoGeneration == base = None /\ indices = None /\ s = None /\ pos = None

NoLookup == char1 = None /\ char2 = None /\ alpha_cost = None

NoSteps ==
    /\ stack = None /\ chosen_split = None
    /\ bt_i = None /\ bt_j = None /\ bt_str1 = None /\ bt_str2 = None

Init ==
    /\ pc = "input"
    /\ str1 \in Strings(MaxTotalLen)
    /\ str2 \in Strings(MaxTotalLen - Len(str1))
    /\ dp = None
    /\ score = None
    /\ aligner = None
    /\ aligned_str1 = None
    /\ aligned_str2 = None
    /\ cost = None
    /\ calculated_cost = None
    /\ NoGeneration
    /\ NoLookup
    /\ NoSteps

\* min_cost = sequence_alignment(str1, str2, gap_penalty)
SequenceAlignment ==
    /\ pc = "input"
    /\ pc' = "sequence_alignment"
    /\ dp' = sequence_alignment_table(str1, str2, GAP)
    /\ cost' = At(At(dp', Len(str1)), Len(str2))
    /\ UNCHANGED <<str1, str2, score, aligner, aligned_str1, aligned_str2,
                   calculated_cost, genVars, costVars, stepVars>>

SpaceEfficientAlignment ==
    /\ pc = "input"
    /\ pc' = "space_efficient_alignment"
    /\ score' = space_efficient_alignment(str1, str2)
    /\ UNCHANGED <<str1, str2, dp, aligner, aligned_str1, aligned_str2, cost,
                   calculated_cost, genVars, costVars, stepVars>>

BasicAlignment ==
    /\ pc = "input"
    /\ pc' = "basic_alignment"
    /\ aligner' = "basic_alignment"
    /\ LET r == basic_alignment(str1, str2)
       IN  /\ aligned_str1' = r[1]
           /\ aligned_str2' = r[2]
           /\ cost' = r[3]
    /\ UNCHANGED <<str1, str2, dp, score, calculated_cost, genVars, costVars, stepVars>>

\* aligned_str1, aligned_str2, cost = hirschberg_alignment(str1, str2)
HirschbergAlignment ==
    /\ pc = "input"
    /\ pc' = "hirschberg_alignment"
    /\ aligner' = "hirschberg_alignment"
    /\ LET r == hirschberg_alignment(str1, str2)
       IN  /\ aligned_str1' = r[1]
           /\ aligned_str2' = r[2]
           /\ cost' = r[3]
    /\ UNCHANGED <<str1, str2, dp, score, calculated_cost, genVars, costVars, stepVars>>

\* calculated_cost = calculate_alignment_cost(aligned_str1, aligned_str2)
CalculateAlignmentCost ==
    /\ pc \in {"basic_alignment", "hirschberg_alignment"}
    /\ LET r == calculate_alignment_cost(aligned_str1, aligned_str2)
       IN  IF r[1] = "ValueError"
           THEN /\ pc' = "ValueError"
                /\ UNCHANGED calculated_cost
           ELSE /\ pc' = "calculate_alignment_cost"
                /\ calculated_cost' = r[2]
    /\ UNCHANGED <<str1, str2, dp, score, aligner, aligned_str1, aligned_str2, cost,
                   genVars, costVars, stepVars>>

Next ==
    \/ SequenceAlignment
    \/ SpaceEfficientAlignment
    \/ BasicAlignment
    \/ HirschbergAlignment
    \/ CalculateAlignmentCost

Spec == Init /\ [][Next]_vars

(***************************************************************************)
(* The state machine: generate_string run on a seed, one index per step.   *)
(***************************************************************************)
IndexLists == UNION {[1..n -> (-MaxIndex)..MaxIndex] : n \in 0..MaxIndices}

\* parse_input_file hands over an empty base only with an empty index list
InitGen ==
    /\ pc = "generate_string"
    /\ base \in Strings(MaxBaseLen)
    /\ indices \in (IF base = << >> THEN {<< >>} ELSE IndexLists)
    /\ s = base
    /\ pos = 0
    /\ NoAlignment
    /\ NoLookup
    /\ NoSteps

\* one pass of the loop
GenerateStep ==
    /\ pc = "generate_string"
    /\ pos < Len(indices)
    /\ s' = generate_step(s, At(indices, pos))
    /\ pos' = pos + 1
    /\ UNCHANGED <<pc, base, indices, alignVars, costVars, stepVars>>

\* return s
GenerateReturn ==
    /\ pc = "generate_string"
    /\ pos >= Len(indices)
    /\ pc' = "generate_return"
    /\ UNCHANGED <<genVars, alignVars, costVars, stepVars>>

NextGen ==
    \/ GenerateStep
    \/ GenerateReturn

SpecGen == InitGen /\ [][NextGen]_vars

(***************************************************************************)
(* The state machine: get_alpha called on a pair of characters.            *)
(***************************************************************************)
\* characters a seed file can hold besides the four bases
OtherCharacters == {"_", "N", "a", "U"}

InitCost ==
    /\ pc = "get_alpha"
    /\ char1 \in Alphabet \cup OtherCharacters
    /\ char2 \in Alphabet \cup OtherCharacters
    /\ alpha_cost = None
    /\ NoAlignment
    /\ NoGeneration
    /\ NoSteps

GetAlpha ==
    /\ pc = "get_alpha"
    /\ pc' = "get_alpha_return"
    /\ alpha_cost' = get_alpha(char1, char2)
    /\ UNCHANGED <<char1, char2, alignVars, genVars, stepVars>>

NextCost ==
    \/ GetAlpha

SpecCost == InitCost /\ [][NextCost]_vars

(***************************************************************************)
(* The state machine: hirschberg_alignment or basic_alignment run step by  *)
(* step.  stack holds the calls that have not returned, the running one    *)
(* first; a call of hirschberg_alignment runs its left recursive call to   *)
(* the end before its right one, and concatenates what they return in that *)
(* order, so aligned_str1, aligned_str2 and cost hold what the calls that  *)
(* returned so far contribute to the result of the outermost call.         *)
(***************************************************************************)
Frame(fn, a, b) == [fn |-> fn, str1 |-> a, str2 |-> b]

\* the stack once its running call has returned, and where control goes
Return(rest) ==
    /\ stack' = rest
    /\ pc' = IF rest = << >> THEN "return" ELSE "call"

\* Nothing has been called: before the first split chosen_split is -1, and
\* before the first call of basic_alignment its table and its loop variables
\* are empty and 0.
InitSteps ==
    /\ pc = "input"
    /\ str1 = << >>
    /\ str2 = << >>
    /\ aligner = "none"
    /\ stack = << >>
    /\ aligned_str1 = << >>
    /\ aligned_str2 = << >>
    /\ cost = 0
    /\ dp = << >>
    /\ score = None
    /\ calculated_cost = None
    /\ chosen_split = -1
    /\ bt_i = 0 /\ bt_j = 0 /\ bt_str1 = << >> /\ bt_str2 = << >>
    /\ NoGeneration
    /\ NoLookup

\* hirschberg_alignment(str1, str2) or basic_alignment(str1, str2) is called
Call ==
    /\ pc = "input"
    /\ str1' \in Strings(MaxTotalLen)
    /\ str2' \in Strings(MaxTotalLen - Len(str1'))
    /\ aligner' \in {"basic_alignment", "hirschberg_alignment"}
    /\ stack' = <<Frame(aligner', str1', str2')>>
    /\ pc' = "call"
    /\ UNCHANGED <<dp, score, aligned_str1, aligned_str2, cost, calculated_cost,
                   chosen_split, bt_i, bt_j, bt_str1, bt_str2, genVars, costVars>>

\* if m == 0: return '_' * n, str2, n * DELTA
\* if n == 0: return str1, '_' * m, m * DELTA
HirschbergBase ==
    /\ pc = "call"
    /\ Head(stack).fn = "hirschberg_alignment"
    /\ LET a == Head(stack).str1
           b == Head(stack).str2
       IN  /\ Len(a) = 0 \/ Len(b) = 0
           /\ IF Len(a) = 0
              THEN /\ aligned_str1' = aligned_str1 \o Repeat("_", Len(b))
                   /\ aligned_str2' = aligned_str2 \o b
                   /\ cost' = cost + Len(b) * DELTA
              ELSE /\ aligned_str1' = aligned_str1 \o a
                   /\ aligned_str2' = aligned_str2 \o Repeat("_", Len(a))
                   /\ cost' = cost + Len(a) * DELTA
    /\ Return(Tail(stack))
    /\ UNCHANGED <<str1, str2, dp, score, aligner, calculated_cost, chosen_split,
                   bt_i, bt_j, bt_str1, bt_str2, genVars, costVars>>

\* if m == 1 or n == 1: return basic_alignment(str1, str2)
HirschbergDelegate ==
    /\ pc = "call"
    /\ Head(stack).fn = "hirschberg_alignment"
    /\ LET a == Head(stack).str1
           b == Head(stack).str2
       IN  /\ Len(a) # 0 /\ Len(b) # 0
           /\ Len(a) = 1 \/ Len(b) = 1
           /\ stack' = <<Frame("basic_alignment", a, b)>> \o Tail(stack)
    /\ UNCHANGED <<pc, alignVars, chosen_split, bt_i, bt_j, bt_str1, bt_str2,
                   genVars, costVars>>

\* the recursive case, up to its two recursive calls
HirschbergSplit ==
    /\ pc = "call"
    /\ Head(stack).fn = "hirschberg_alignment"
    /\ LET a == Head(stack).str1
           b == Head(stack).str2
           halves == hirschberg_halves(a)
           split_idx == hirschberg_split(a, b)
       IN  /\ Len(a) >= 2 /\ Len(b) >= 2
           /\ chosen_split' = split_idx
           /\ stack' = <<Frame("hirschberg_alignment", halves[1], SliceTo(b, split_idx)),
                         Frame("hirschberg_alignment", halves[2], SliceFrom(b, split_idx))>>
                       \o Tail(stack)
    /\ UNCHANGED <<pc, alignVars, bt_i, bt_j, bt_str1, bt_str2, genVars, costVars>>

\* basic_alignment up to its backtrack loop: the table, i, j = m, n
BasicAlignmentFill ==
    /\ pc = "call"
    /\ Head(stack).fn = "basic_alignment"
    /\ pc' = "backtrack"
    /\ dp' = basic_alignment_table(Head(stack).str1, Head(stack).str2)
    /\ bt_i' = Len(Head(stack).str1)
    /\ bt_j' = Len(Head(stack).str2)
    /\ bt_str1' = << >>
    /\ bt_str2' = << >>
    /\ UNCHANGED <<str1, str2, score, aligner, aligned_str1, aligned_str2, cost,
                   calculated_cost, stack, chosen_split, genVars, costVars>>

\* one pass of while i > 0 or j > 0
BacktrackStep ==
    /\ pc = "backtrack"
    /\ bt_i > 0 \/ bt_j > 0
    /\ LET a == Head(stack).str1
           b == Head(stack).str2
           move == backtrack_move(dp, bt_i, bt_j, a, b)
       IN  CASE move = "gap1" ->
                  /\ bt_str1' = <<"_">> \o bt_str1
                  /\ bt_str2' = <<At(b, bt_j - 1)>> \o bt_str2
                  /\ bt_j' = bt_j - 1
                  /\ bt_i' = bt_i
             [] move = "gap2" ->
                  /\ bt_str1' = <<At(a, bt_i - 1)>> \o bt_str1
                  /\ bt_str2' = <<"_">> \o bt_str2
                  /\ bt_i' = bt_i - 1
                  /\ bt_j' = bt_j
             [] move = "match" ->
                  /\ bt_str1' = <<At(a, bt_i - 1)>> \o bt_str1
                  /\ bt_str2' = <<At(b, bt_j - 1)>> \o bt_str2
                  /\ bt_i' = bt_i - 1
                  /\ bt_j' = bt_j - 1
    /\ UNCHANGED <<pc, str1, str2, dp, score, aligner, aligned_str1, aligned_str2,
                   cost, calculated_cost, stack, chosen_split, genVars, costVars>>

\* return aligned_str1, aligned_str2, dp[m][n]
BasicAlignmentReturn ==
    /\ pc = "backtrack"
    /\ ~(bt_i > 0 \/ bt_j > 0)
    /\ aligned_str1' = aligned_str1 \o bt_str1
    /\ aligned_str2' = aligned_str2 \o bt_str2
    /\ cost' = cost + At(At(dp, Len(Head(stack).str1)), Len(Head(stack).str2))
    /\ Return(Tail(stack))
    /\ UNCHANGED <<str1, str2, dp, score, aligner, calculated_cost, chosen_split,
                   bt_i, bt_j, bt_str1, bt_str2, genVars, costVars>>

NextSteps ==
    \/ Call
    \/ HirschbergBase
    \/ HirschbergDelegate
    \/ HirschbergSplit
    \/ BasicAlignmentFill
    \/ BacktrackStep
    \/ BasicAlignmentReturn

\* a step can be taken: a call is to be made or has not returned
\* (the state predicate that ENABLED <<NextSteps>>_vars equals)
Running == pc \in {"input", "call", "backtrack"}

\* Nothing suspends the interpreter: a call that has not returned keeps
\* running.  This is weak fairness of NextSteps, WF_vars(NextSteps), with
\* ENABLED <<NextSteps>>_vars written as Running.
SpecSteps ==
    InitSteps /\ [][NextSteps]_vars /\ ([]<>(~Running) \/ []<><<NextSteps>>_vars)

\* basic.py's main: only the quadratic aligner runs
SpecQuadratic == Init /\ [][SequenceAlignment]_vars

(***************************************************************************)
(* Properties.                                                             *)
(***************************************************************************)
\* an aligned string with its gap markers deleted
StripGaps(a) == SelectSeq(a, LAMBDA c : c # "_")

\* All alignments of a with b as pairs of gap-padded strings: the last column
\* pairs the two last symbols, or pads one of them with a gap.
RECURSIVE PaddedAlignments(_, _)
PaddedAlignments(a, b) ==
    LET la == Len(a)
        lb == Len(b)
    IN  IF la = 0 /\ lb = 0 THEN {<<<< >>, << >>>>}
        ELSE (IF la > 0 /\ lb > 0
              THEN {<<Append(p[1], a[la]), Append(p[2], b[lb])>> :
                      p \in PaddedAlignments(SubSeq(a, 1, la - 1), SubSeq(b, 1, lb - 1))}
              ELSE {})
             \cup
             (IF la > 0
              THEN {<<Append(p[1], a[la]), Append(p[2], "_")>> :
                      p \in PaddedAlignments(SubSeq(a, 1, la - 1), b)}
              ELSE {})
             \cup
             (IF lb > 0
              THEN {<<Append(p[1], "_"), Append(p[2], b[lb])>> :
                      p \in PaddedAlignments(a, SubSeq(b, 1, lb - 1))}
              ELSE {})

\* substitution cost per symbol/symbol column, the gap penalty per gap column
RECURSIVE PaddedCost(_, _)
PaddedCost(x, y) ==
    IF Len(x) = 0 THEN 0
    ELSE (IF Head(x) = "_" \/ Head(y) = "_" THEN GAP ELSE ALPHA[Head(x)][Head(y)])
         + PaddedCost(Tail(x), Tail(y))

SetMin(S) == CHOOSE x \in S : \A y \in S : x <= y

MinAlignmentCost(a, b) == SetMin({PaddedCost(p[1], p[2]) : p \in PaddedAlignments(a, b)})

\* C1: the cost hirschberg_alignment returns is the cost sequence_alignment
\* returns for the same two strings.
C1_HirschbergCostIsQuadraticCost ==
    pc = "hirschberg_alignment" => cost = sequence_alignment(str1, str2, GAP)

\* the recursive case ran, on strings that do not align for free
C1_Witness ==
    /\ pc = "hirschberg_alignment"
    /\ Len(str1) >= 3 /\ Len(str2) >= 2
    /\ cost > 0

\* C2: every entry dp[i][j] of sequence_alignment's table is the minimum cost
\* over all gap-padded alignments of str1[0:i] with str2[0:j], and the value
\* returned is that minimum for the whole strings.
C2_TableIsMinimumOverAlignments ==
    pc = "sequence_alignment" =>
        /\ \A i \in 0..Len(str1) : \A j \in 0..Len(str2) :
               At(At(dp, i), j) = MinAlignmentCost(SliceTo(str1, i), SliceTo(str2, j))
        /\ cost = MinAlignmentCost(str1, str2)

\* a table whose corner is reached only with gap columns although the strings
\* have the same length
C2_Witness ==
    /\ pc = "sequence_alignment"
    /\ Len(str1) = 2 /\ Len(str2) = 2
    /\ cost < PaddedCost(str1, str2)

\* C3: the two strings hirschberg_alignment returns have the same length and,
\* with the gap markers deleted, are str1 and str2.
C3_HirschbergAlignmentRecoversInputs ==
    pc = "hirschberg_alignment" =>
        /\ Len(aligned_str1) = Len(aligned_str2)
        /\ StripGaps(aligned_str1) = str1
        /\ StripGaps(aligned_str2) = str2

\* the recursive case returned an alignment with gaps in both strings
C3_Witness ==
    /\ pc = "hirschberg_alignment"
    /\ Len(str1) >= 2 /\ Len(str2) >= 2
    /\ \E k \in 1..Len(aligned_str1) : aligned_str1[k] = "_"
    /\ \E k \in 1..Len(aligned_str2) : aligned_str2[k] = "_"

\* C4: calculate_alignment_cost on the alignment hirschberg_alignment returned
\* does not raise and returns the cost hirschberg_alignment returned.
C4_HirschbergCostIsRecomputedCost ==
    aligner = "hirschberg_alignment" =>
        /\ pc # "ValueError"
        /\ pc = "calculate_alignment_cost" => calculated_cost = cost

\* the verifier ran on an alignment with a gap column and a substitution
C4_Witness ==
    /\ aligner = "hirschberg_alignment"
    /\ pc = "calculate_alignment_cost"
    /\ Len(str1) >= 2 /\ Len(str2) >= 2
    /\ \E k \in 1..Len(aligned_str2) : aligned_str2[k] = "_"
    /\ calculated_cost > Len(aligned_str1) * DELTA

\* C5: calculate_alignment_cost on the alignment basic_alignment returned
\* returns the cost basic_alignment returned, dp[m][n].
C5_BasicAlignmentSelfConsistent ==
    aligner = "basic_alignment" =>
        /\ pc # "ValueError"
        /\ pc = "calculate_alignment_cost" =>
               /\ calculated_cost = cost
               /\ cost = At(At(basic_alignment_table(str1, str2), Len(str1)), Len(str2))

\* the verifier ran on a backtracked alignment with gaps in both strings
C5_Witness ==
    /\ aligner = "basic_alignment"
    /\ pc = "calculate_alignment_cost"
    /\ \E k \in 1..Len(aligned_str1) : aligned_str1[k] = "_"
    /\ \E k \in 1..Len(aligned_str2) : aligned_str2[k] = "_"
    /\ calculated_cost > 2 * DELTA

\* C9 as claimed: aligning AC with AG costs 118 and the gap-free alignment
\* AC / AG is optimal.
C9_Original ==
    (str1 = <<"A", "C">> /\ str2 = <<"A", "G">>) =>
        /\ pc = "sequence_alignment" => cost = 118
        /\ pc = "basic_alignment" => cost = 118

\* C9 as amended: aligning AC with AG costs 60 (A/A, then C and G each against
\* a gap); basic_alignment returns A_C / AG_ with cost 60; the gap-free
\* alignment AC / AG costs 118 and is not optimal.
C9_ACvsAGCosts60 ==
    (str1 = <<"A", "C">> /\ str2 = <<"A", "G">>) =>
        /\ pc = "sequence_alignment" => cost = 60
        /\ pc = "basic_alignment" =>
               /\ cost = 60
               /\ aligned_str1 = <<"A", "_", "C">>
               /\ aligned_str2 = <<"A", "G", "_">>
        /\ pc = "calculate_alignment_cost" => calculated_cost = 60
        /\ PaddedCost(str1, str2) = 118

C9_Witness ==
    /\ str1 = <<"A", "C">> /\ str2 = <<"A", "G">>
    /\ pc = "calculate_alignment_cost"
    /\ aligner = "basic_alignment"
    /\ aligned_str1 = <<"A", "_", "C">>

\* C10: space_efficient_alignment returns len(str2) + 1 entries, entry j being
\* sequence_alignment(str1, str2[0:j]): row len(str1) of the quadratic table.
C10_ScoreIsLastRowOfTable ==
    pc = "space_efficient_alignment" =>
        /\ Len(score) = Len(str2) + 1
        /\ \A j \in 0..Len(str2) :
               At(score, j) = sequence_alignment(str1, SliceTo(str2, j), GAP)
        /\ score = At(sequence_alignment_table(str1, str2, GAP), Len(str1))

\* the scorer went through at least two rows and two columns
C10_Witness ==
    /\ pc = "space_efficient_alignment"
    /\ Len(str1) >= 2 /\ Len(str2) >= 2
    /\ At(score, Len(str2)) > 0
    /\ At(score, Len(str2)) < At(score, 0)

\* 2^n
RECURSIVE Pow2(_)
Pow2(n) == IF n = 0 THEN 1 ELSE 2 * Pow2(n - 1)

\* index number i (from 0) of the seed lies in [0, current_length - 1] of the
\* string as it stands when the loop reaches it
IndexInRange(i) ==
    LET cur == generate_loop(base, SubSeq(indices, 1, i), 0)
    IN  0 <= At(indices, i) /\ At(indices, i) <= Len(cur) - 1

\* C6: on a non-empty base every step on an index in range doubles the running
\* length, so the result has len(base) * 2^len(indices) characters; with no
\* indices the base is returned unchanged.
C6_EachStepDoublesLength ==
    (pc \in {"generate_string", "generate_return"} /\ Len(base) > 0
        /\ \A i \in 0..(pos - 1) : IndexInRange(i)) =>
        /\ Len(s) = Len(base) * Pow2(pos)
        /\ pc = "generate_return" =>
               /\ Len(s) = Len(base) * Pow2(Len(indices))
               /\ indices = << >> => s = base

\* generate_string returned after two steps on indices in range, the second
\* one past the end of the base
C6_Witness ==
    /\ pc = "generate_return"
    /\ Len(base) = 2 /\ Len(indices) = 2
    /\ IndexInRange(0) /\ IndexInRange(1)
    /\ At(indices, 1) >= Len(base)
    /\ Len(s) = 8

\* C7: generate_string returns no string when one of the indices lies outside
\* [0, current_length - 1] of the string as it stands at that step.
C7_OutOfRangeIndexFails ==
    pc = "generate_return" => \A i \in 0..(Len(indices) - 1) : IndexInRange(i)

\* C8: get_alpha returns the table value for the 16 pairs of bases and never
\* returns a cost for a pair with a character that is not a base (such a call
\* is rejected instead of returning).
C8_NoDefaultCostOutsideAlphabet ==
    pc = "get_alpha_return" =>
        /\ (char1 \in Alphabet /\ char2 \in Alphabet) => alpha_cost = ALPHA[char1][char2]
        /\ char1 \in Alphabet /\ char2 \in Alphabet

\* a step can be taken exactly while Running
RunningIsEnabled == Running <=> ENABLED <<NextSteps>>_vars

\* the step-by-step run returns what the call returns
StepsReturnWhatTheCallReturns ==
    pc = "return" =>
        <<aligned_str1, aligned_str2, cost>> =
            (IF aligner = "hirschberg_alignment"
             THEN hirschberg_alignment(str1, str2)
             ELSE basic_alignment(str1, str2))

\* C11: a backtrack step of basic_alignment at i > 0 and j > 0 takes the first
\* of diagonal, vertical (gap in str2), horizontal (gap in str1) whose
\* candidate equals dp[i][j]: it emits a gap column only when dp[i][j] is not
\* the diagonal candidate, and a gap in str1 only when dp[i][j] is not the
\* vertical candidate either.
C11_BacktrackTakesFirstMatchingMove ==
    [][(pc = "backtrack" /\ bt_i > 0 /\ bt_j > 0) =>
          LET a          == Head(stack).str1
              b          == Head(stack).str2
              current    == At(At(dp, bt_i), bt_j)
              diagonal   == At(At(dp, bt_i - 1), bt_j - 1)
                              + ALPHA[At(a, bt_i - 1)][At(b, bt_j - 1)]
              vertical   == At(At(dp, bt_i - 1), bt_j) + GAP
              horizontal == At(At(dp, bt_i), bt_j - 1) + GAP
              column     == <<Head(bt_str1'), Head(bt_str2')>>
              first      == IF current = diagonal THEN "diagonal"
                            ELSE IF current = vertical THEN "vertical"
                            ELSE "horizontal"
          IN  /\ current \in {diagonal, vertical, horizontal}
              /\ first = "diagonal" =>
                     /\ column = <<At(a, bt_i - 1), At(b, bt_j - 1)>>
                     /\ bt_i' = bt_i - 1 /\ bt_j' = bt_j - 1
              /\ first = "vertical" =>
                     /\ column = <<At(a, bt_i - 1), "_">>
                     /\ bt_i' = bt_i - 1 /\ bt_j' = bt_j
              /\ first = "horizontal" =>
                     /\ column = <<"_", At(b, bt_j - 1)>>
                     /\ bt_i' = bt_i /\ bt_j' = bt_j - 1
                     /\ current = horizontal
              /\ ("_" \in {column[1], column[2]}) => current # diagonal
              /\ column[1] = "_" => current # vertical
              /\ bt_str1' = <<column[1]>> \o bt_str1
              /\ bt_str2' = <<column[2]>> \o bt_str2
      ]_vars

\* the step just taken, from (bt_i + 1, bt_j + 1), was diagonal although the
\* vertical candidate equalled the cell too
C11_Witness ==
    /\ pc = "backtrack"
    /\ aligner = "basic_alignment"
    /\ Len(bt_str1) >= 1
    /\ Head(bt_str1) # "_" /\ Head(bt_str2) # "_"
    /\ At(At(dp, bt_i + 1), bt_j + 1) = At(At(dp, bt_i), bt_j + 1) + GAP
    /\ bt_i >= 1

\* scoreLeft[k] + scoreRight[k] for the halves left, right of str1 and str2 = b
SplitTotal(left, right, b, k) ==
    MinAlignmentCost(left, SubSeq(b, 1, k)) + MinAlignmentCost(right, SubSeq(b, k + 1, Len(b)))

\* the smallest k in 0..len(b) that minimises SplitTotal
SmallestBestSplit(left, right, b) ==
    CHOOSE k \in 0..Len(b) :
        /\ \A k2 \in 0..Len(b) : SplitTotal(left, right, b, k) <= SplitTotal(left, right, b, k2)
        /\ \A k2 \in 0..(k - 1) : SplitTotal(left, right, b, k2) > SplitTotal(left, right, b, k)

\* C12: in the recursive case (len(str1) >= 2 and len(str2) >= 2) the split
\* index is the smallest k in 0..len(str2) minimising the optimal cost of
\* aligning str1[0:len(str1) // 2] with str2[0:k] plus that of aligning the rest
\* of str1 with str2[k:], and the two recursive calls are on those halves.
C12_SplitIsSmallestMinimiser ==
    [][(pc = "call" /\ Head(stack).fn = "hirschberg_alignment"
          /\ Len(Head(stack).str1) >= 2 /\ Len(Head(stack).str2) >= 2) =>
          LET a     == Head(stack).str1
              b     == Head(stack).str2
              left  == SubSeq(a, 1, Len(a) \div 2)
              right == SubSeq(a, Len(a) \div 2 + 1, Len(a))
              best  == SmallestBestSplit(left, right, b)
          IN  /\ chosen_split' = best
              /\ stack' = <<Frame("hirschberg_alignment", left, SubSeq(b, 1, best)),
                            Frame("hirschberg_alignment", right, SubSeq(b, best + 1, Len(b)))>>
                          \o Tail(stack)
      ]_vars

\* the outermost call has just split where a later index minimises the total
\* as well
C12_Witness ==
    /\ pc = "call"
    /\ Len(str1) >= 3 /\ Len(str2) >= 2
    /\ Len(stack) = 2
    /\ stack[1].fn = "hirschberg_alignment" /\ stack[2].fn = "hirschberg_alignment"
    /\ stack[1].str1 \o stack[2].str1 = str1
    /\ stack[1].str2 \o stack[2].str2 = str2
    /\ chosen_split = Len(stack[1].str2)
    /\ \E k2 \in (chosen_split + 1)..Len(str2) :
           SplitTotal(stack[1].str1, stack[2].str1, str2, k2)
             = SplitTotal(stack[1].str1, stack[2].str1, str2, chosen_split)

\* C13: hirschberg_alignment terminates: its two recursive calls are on the
\* non-empty halves of str1, of len(str1) // 2 and len(str1) - len(str1) // 2
\* characters, both fewer than len(str1); the backtrack loop of a base case
\* has run at most len(str1) + len(str2) passes; and the outermost call
\* returns.
C13_HirschbergTerminates ==
    /\ [][(pc = "call" /\ Head(stack).fn = "hirschberg_alignment"
             /\ Len(Head(stack).str1) >= 2 /\ Len(Head(stack).str2) >= 2) =>
             LET m == Len(Head(stack).str1)
             IN  /\ Len(stack') = Len(stack) + 1
                 /\ stack'[1].fn = "hirschberg_alignment"
                 /\ stack'[2].fn = "hirschberg_alignment"
                 /\ Len(stack'[1].str1) = m \div 2
                 /\ Len(stack'[2].str1) = m - m \div 2
                 /\ \A f \in {stack'[1], stack'[2]} :
                        /\ Len(f.str1) >= 1
                        /\ Len(f.str1) < m
                        /\ 2 * Len(f.str1) <= m + 1
         ]_vars
    /\ [](pc = "backtrack" =>
             Len(bt_str1) + bt_i + bt_j <= Len(Head(stack).str1) + Len(Head(stack).str2))
    /\ [](pc \in {"call", "backtrack"} => stack # << >>)
    /\ <>(pc = "return")

\* the outermost call returned after a recursive call that split again
C13_Witness ==
    /\ pc = "return"
    /\ aligner = "hirschberg_alignment"
    /\ Len(str1) >= 3
    /\ chosen_split = 0
    /\ Len(aligned_str1) > Len(str1)

====
